---- MODULE Spec2Model ----
(***************************************************************************)
(* A model of the reddit-monitor pipeline: the processed-id ledger         *)
(* (src/src/reddit_fetcher.py), the fetch stage that dedups against it,    *)
(* and the batch loop of main (src/src/main.py) that classifies, notifies  *)
(* and checkpoints the ledger after every batch.                           *)
(*                                                                         *)
(* The ledger file is modelled by what a reader can see of it: missing, a  *)
(* complete JSON document holding a list of ids, or a truncated/partial    *)
(* document (what open(..., 'w') followed by an interrupted json.dump      *)
(* leaves).  The last_updated timestamp is not modelled: nothing reads it. *)
(* A Python set has no insertion order: list(set) is modelled as a choice  *)
(* among all orderings of the set.                                         *)
(***************************************************************************)
EXTENDS Integers, Sequences, FiniteSets, TLC

\* ---- bounds of the model ----
NumIds == 2            \* real ids are 1..NumIds; id 0 is the empty string ''
MaxFeedLen == 2        \* entries retrieved per source type in one call
MaxResults == 1        \* length of an LLM result array
MaxFixedLen == 1       \* entries per source type when the feed contents are fixed
MaxTextLen == 2        \* characters of a free title
MaxListLen == 3        \* items of a list given to pre_filter / prioritize_by_relevance
MaxLlmCalls == 3       \* generate_content calls followed within one analyze_batch
MaxChunkInput == 4     \* items of a list given to chunk_list on its own
MaxChunkSize == 3      \* largest chunk_size given to chunk_list on its own
MaxRetriesArg == 4     \* largest max_retries given to parse_feed_with_retry
MaxListedResults == 2  \* length of an LLM result array that may repeat an index

\* ---- program constants (scaled down) ----
MAX_PROCESSED_POSTS == 2
BATCH_SIZE == 1

EmptyId == 0
Ids == 0..NumIds
ItemTypes == {"post", "comment", "search"}

\* os.environ: whether each required variable is set (and not empty)
Envs == [GEMINI_API_KEY : BOOLEAN, FEISHU_WEBHOOK_URL : BOOLEAN]
AllSet == [GEMINI_API_KEY |-> TRUE, FEISHU_WEBHOOK_URL |-> TRUE]

\* no LLM response at hand (none asked for yet, or the call raised)
NoResponse == [whole |-> "none", bracketed |-> "none", array |-> <<>>]

VARIABLES
    pc,              \* position of the process in main / fetch_all_new_posts / save
    ledgerFile,      \* data/processed_posts.json: [status, ids]
    startFile,       \* ledgerFile when the run (or the fetch call) started
    processed_ids,   \* the local set processed_ids (fetch's, then main's)
    snapshot,        \* what load_processed_posts returned at the start of fetch
    all_new_items,   \* fetch_all_new_posts' list all_new_items
    new_items,       \* main's new_items
    filtered_items,  \* main's filtered_items (after pre_filter and prioritize)
    batch_idx,       \* main's batch_idx (0-based)
    analysis,        \* outcome of analyze_batch for the current batch
    relevant_in_batch,
    total_relevant,
    total_sent,
    relevant_stats,
    saveCaller,      \* who called save_processed_posts: "fetch" or "batch"
    saveStatus,      \* how the last save_processed_posts call ended
    fileBeforeSave,  \* ledgerFile when the save under way (or just ended) began
    stoppedAt,       \* pc at which the process was killed or raised
    feeds,           \* fixed feed contents (fetch-only specification)
    callNo,          \* number of the fetch call (fetch-only specification)
    firstResult,     \* list returned by the first fetch call (fetch-only spec.)
    env,             \* which of the required environment variables are set
    llm_calls,       \* generate_content calls made by the analyze_batch under way
    response,        \* the LLM response the current batch's results came from
    deliveries,      \* outcome of each send_to_feishu of the current batch
    chunk_arg,       \* the chunk_size given to chunk_list (chunk_list on its own)
    chunks,          \* the list chunk_list returned (chunk_list on its own)
    max_retries,     \* parse_feed_with_retry's argument
    attempt,         \* parse_feed_with_retry's loop variable
    retry_log,       \* the feedparser.parse and time.sleep calls made, in order
    feed,            \* what parse_feed_with_retry returned
    source_log,      \* the sources fetch_all_new_posts has fetched, in order
    batch_events     \* what the batch loop's current iteration has done, in order

vars == <<pc, ledgerFile, startFile, processed_ids, snapshot, all_new_items,
          new_items, filtered_items, batch_idx, analysis, relevant_in_batch,
          total_relevant, total_sent, relevant_stats, saveCaller,
          saveStatus, fileBeforeSave, stoppedAt, feeds, callNo, firstResult,
          env, llm_calls, response, deliveries, chunk_arg, chunks,
          max_retries, attempt, retry_log, feed, source_log, batch_events>>

\* ---- helpers ----
Range(s) == {s[i] : i \in 1..Len(s)}

SeqsUpTo(S, n) == UNION {[1..k -> S] : k \in 0..n}

\* all orderings of a set: what list(a_set) may produce
Orderings(S) ==
    {s \in [1..Cardinality(S) -> S] : \A i, j \in 1..Cardinality(S) : s[i] = s[j] => i = j}

\* s[-n:]
LastN(s, n) == IF Len(s) <= n THEN s ELSE SubSeq(s, Len(s) - n + 1, Len(s))

ItemIds(items) == {items[i].id : i \in 1..Len(items)}

\* ---- the ledger file ----
\* The file holds a JSON list of ids; its only reader turns the list into a set, so
\* the model keeps the set of ids of a complete file.  A file that is empty or cut
\* short ("corrupt") is not valid JSON.
MissingFile == [status |-> "missing", ids |-> {}]
ValidFile(l) == [status |-> "valid", ids |-> Range(l)]
PartialFile == [status |-> "corrupt", ids |-> {}]

\* the ids a reader obtains from the file
LedgerIds(f) == IF f.status = "valid" THEN f.ids ELSE {}

\* load_processed_posts: a missing file and a file json.load rejects both give set()
load_processed_posts(f) == LedgerIds(f)

\* ledger files earlier runs can have left behind: none, a complete one within the
\* size bound, or one cut short by an interrupted save
InitFiles ==
    {MissingFile, PartialFile} \cup
    {[status |-> "valid", ids |-> S] :
        S \in {T \in SUBSET Ids : Cardinality(T) <= MAX_PROCESSED_POSTS}}

\* ---- texts ----
\* A text is a sequence of characters over a small alphabet with both cases.
Chars == {"a", "A", "b", "B"}
LowerChar(c) == IF c = "A" THEN "a" ELSE IF c = "B" THEN "b" ELSE c

\* str.lower()
lower(text) == [i \in 1..Len(text) |-> LowerChar(text[i])]

\* Python's `sub in text` on strings
RECURSIVE In(_, _)
In(sub, text) ==
    IF Len(sub) > Len(text) THEN FALSE
    ELSE IF SubSeq(text, 1, Len(sub)) = sub THEN TRUE
    ELSE In(sub, Tail(text))

\* keyword lists of the configuration.  src/config.py does not define them; the
\* model takes a mixed-case keyword and a two-word keyword to exclude, and one
\* mixed-case relevance keyword
EXCLUDE_KEYWORDS == << <<"a", "B">>, <<"b", " ", "b">> >>
RELEVANCE_KEYWORDS == << <<"B", "a">> >>

\* (item.get('title', '') + ' ' + item.get('content', '')).lower()
ItemText(item) == lower(item.title \o <<" ">> \o item.content)

\* kw.lower(), as both keyword loops compare
KeywordTextRaw(kw) == kw
KeywordText(kw) == lower(kw)

\* ---- feed entries and items ----
\* A raw feed entry is reduced to its id: the same id always carries the same
\* title and content.  The texts the feeds deliver are fixed per id: every third
\* id (2, 5, ...) contains an exclusion keyword, every odd id a relevance keyword.
Entries == [id : Ids]

TitleOf(id) == IF id % 3 = 2 THEN <<"A", "b">> ELSE <<"a">>
ContentOf(id) == IF id % 2 = 1 THEN <<"B", "a">> ELSE <<"a">>

\* fetch_subreddit_posts / _comments / fetch_keyword_search: normalise an entry
MakeItem(e, type) ==
    [id |-> e.id, type |-> type, title |-> TitleOf(e.id), content |-> ContentOf(e.id)]

\* the dedup test of fetch_all_new_posts
IsNewSearchUnchecked(id, pids, type) == type = "search" \/ id \notin pids
IsNew(id, pids, type) == id \notin pids

\* the update of processed_ids after an item is kept
MarkSeenNever(pids, id) == pids
MarkSeen(pids, id) == pids \cup {id}

\* a loop that appends every entry it is given
RECURSIVE FetchLoopKeepAll(_, _, _, _)
FetchLoopKeepAll(items, pids, entries, type) ==
    IF entries = <<>> THEN [items |-> items, pids |-> pids]
    ELSE FetchLoopKeepAll(Append(items, MakeItem(Head(entries), type)),
                          MarkSeen(pids, Head(entries).id), Tail(entries), type)

\* one "for x in xs: if x['id'] not in processed_ids: ..." loop of fetch_all_new_posts
RECURSIVE FetchLoop(_, _, _, _)
FetchLoop(items, pids, entries, type) ==
    IF entries = <<>> THEN [items |-> items, pids |-> pids]
    ELSE LET e == Head(entries) IN
         IF IsNew(e.id, pids, type)
         THEN FetchLoop(Append(items, MakeItem(e, type)), MarkSeen(pids, e.id),
                        Tail(entries), type)
         ELSE FetchLoop(items, pids, Tail(entries), type)

\* processed_ids = load_processed_posts() at the start of fetch_all_new_posts;
\* `old` is whatever an earlier call left in memory
StartSetLeaking(loaded, old) == loaded \cup old
StartSet(loaded, old) == loaded

\* ---- save_processed_posts ----
TrimIdsNever(l) == l
TrimIds(l) == IF Len(l) > MAX_PROCESSED_POSTS THEN LastN(l, MAX_PROCESSED_POSTS) ELSE l

AfterSave == IF saveCaller = "fetch" THEN "fetch_return" ELSE "batch_end"

mainLocals == <<new_items, filtered_items, batch_idx, analysis, relevant_in_batch,
                total_relevant, total_sent, relevant_stats>>
fetchOnly == <<feeds, callNo, firstResult>>
collab == <<llm_calls, response, deliveries>>
\* state of the functions that are also run on their own
\* parse_feed_with_retry has not returned
NotReturned == [kind |-> "pending", of |-> 0]
chunking == <<chunk_arg, chunks>>
retrying == <<max_retries, attempt, retry_log, feed>>
standalone == <<chunking, retrying, source_log>>
aux == <<standalone, batch_events>>
AuxIdle ==
    /\ chunk_arg = 1
    /\ chunks = <<>>
    /\ max_retries = 0
    /\ attempt = 0
    /\ retry_log = <<>>
    /\ feed = NotReturned
    /\ source_log = <<>>

\* config flags read by fetch_all_new_posts.  src/config.py does not define them;
\* a disabled stage behaves as an enabled one whose feeds deliver nothing
MONITOR_COMMENTS == TRUE
ENABLE_KEYWORD_SEARCH == TRUE

\* os.makedirs or open(..., 'w') raises: caught, the file is untouched
SaveOpenFails ==
    /\ pc = "save_open"
    /\ pc' = AfterSave
    /\ saveStatus' = "failed_open"
    /\ fileBeforeSave' = ledgerFile
    /\ UNCHANGED <<ledgerFile, startFile, processed_ids, snapshot, all_new_items,
                   saveCaller, stoppedAt, mainLocals, fetchOnly, env, aux, collab>>

\* open(..., 'w') truncates the file
SaveOpen ==
    /\ pc = "save_open"
    /\ fileBeforeSave' = ledgerFile
    /\ ledgerFile' = PartialFile
    /\ pc' = "save_write"
    /\ UNCHANGED <<startFile, processed_ids, snapshot, all_new_items, saveCaller,
                   saveStatus, stoppedAt, mainLocals, fetchOnly, env, aux, collab>>

\* the content save_processed_posts writes: ids_list = list(processed_ids) in the
\* iteration order of the set, trimmed
SavedFiles(pids) == {ValidFile(TrimIds(order)) : order \in Orderings(pids)}

\* json.dump and the close of the file complete
SaveWrite ==
    /\ pc = "save_write"
    /\ ledgerFile' \in SavedFiles(processed_ids)
    /\ saveStatus' = "ok"
    /\ pc' = AfterSave
    /\ UNCHANGED <<startFile, processed_ids, snapshot, all_new_items, saveCaller,
                   fileBeforeSave, stoppedAt, mainLocals, fetchOnly, env, aux, collab>>

\* json.dump or the flush at close raises (disk full ...): caught, the file stays
\* empty or cut short
SaveWriteFails ==
    /\ pc = "save_write"
    /\ ledgerFile' = PartialFile
    /\ saveStatus' = "failed_write"
    /\ pc' = AfterSave
    /\ UNCHANGED <<startFile, processed_ids, snapshot, all_new_items, saveCaller,
                   fileBeforeSave, stoppedAt, mainLocals, fetchOnly, env, aux, collab>>

\* ---- fetch_all_new_posts ----
FeedSeqs == SeqsUpTo(Entries, MaxFeedLen)

FetchLoadWith(loaded) ==
    /\ pc = "fetch_load"
    /\ processed_ids' = StartSet(loaded, processed_ids)
    /\ snapshot' = loaded
    /\ all_new_items' = <<>>
    /\ pc' = "fetch_posts"
    /\ UNCHANGED <<ledgerFile, startFile, saveCaller, saveStatus,
                   fileBeforeSave, stoppedAt, mainLocals, fetchOnly, env, aux, collab>>

FetchLoad == FetchLoadWith(load_processed_posts(ledgerFile))

\* open or json.load raises on a file that holds ids (an I/O error): the except
\* clause of load_processed_posts returns set()
ReadableIds(f) == f.status = "valid" /\ f.ids # {}
FetchLoadReadError == ReadableIds(ledgerFile) /\ FetchLoadWith({})

\* one source stage: `entries` is what the feeds of that type delivered, in order
\* (a failed source delivers nothing)
FetchStage(entries, type, next) ==
    LET r == FetchLoop(all_new_items, processed_ids, entries, type) IN
    /\ all_new_items' = r.items
    /\ processed_ids' = r.pids
    /\ pc' = next
    /\ saveCaller' = IF next = "save_open" THEN "fetch" ELSE saveCaller
    /\ UNCHANGED <<ledgerFile, startFile, snapshot, saveStatus,
                   fileBeforeSave, stoppedAt, mainLocals, fetchOnly, env, aux, collab>>

FetchPosts(entries) ==
    /\ pc = "fetch_posts"
    /\ FetchStage(entries, "post", "fetch_comments")

FetchComments(entries) ==
    /\ pc = "fetch_comments"
    /\ FetchStage(IF MONITOR_COMMENTS THEN entries ELSE <<>>, "comment", "fetch_search")

FetchSearch(entries) ==
    /\ pc = "fetch_search"
    /\ FetchStage(IF ENABLE_KEYWORD_SEARCH THEN entries ELSE <<>>, "search", "save_open")

\* the feeds deliver anything
FetchPostsAny == \E entries \in FeedSeqs : FetchPosts(entries)
FetchCommentsAny == \E entries \in FeedSeqs : FetchComments(entries)
FetchSearchAny == \E entries \in FeedSeqs : FetchSearch(entries)

\* return all_new_items; main: new_items = fetch_all_new_posts().  The locals of
\* fetch_all_new_posts other than processed_ids are cleared: nothing reads them again
FetchReturn ==
    /\ pc = "fetch_return"
    /\ new_items' = all_new_items
    /\ all_new_items' = <<>>
    /\ snapshot' = {}
    /\ saveStatus' = "none"
    /\ fileBeforeSave' = MissingFile
    /\ pc' = "fetch_returned"
    /\ UNCHANGED <<ledgerFile, startFile, processed_ids,
                   filtered_items, batch_idx, analysis, relevant_in_batch,
                   total_relevant, total_sent, relevant_stats, saveCaller,
                   stoppedAt, fetchOnly, env, aux, collab>>


\* ---- prefilter.py ----
\* the keyword loop of pre_filter: the first keyword found in the text excludes
RECURSIVE should_exclude(_, _)
should_exclude(text, keywords) ==
    IF keywords = <<>> THEN FALSE
    ELSE IF In(KeywordText(Head(keywords)), text) THEN TRUE
    ELSE should_exclude(text, Tail(keywords))

RECURSIVE pre_filter(_)
pre_filter(items) ==
    IF items = <<>> THEN <<>>
    ELSE IF should_exclude(ItemText(Head(items)), EXCLUDE_KEYWORDS)
         THEN pre_filter(Tail(items))
         ELSE <<Head(items)>> \o pre_filter(Tail(items))

\* any(kw.lower() in text for kw in RELEVANCE_KEYWORDS)
has_relevance_keywords(item) ==
    \E k \in 1..Len(RELEVANCE_KEYWORDS) :
        In(KeywordText(RELEVANCE_KEYWORDS[k]), ItemText(item))

\* the loop appending to with_keywords / without_keywords
RECURSIVE SplitByKeywords(_, _, _)
SplitByKeywords(items, with_keywords, without_keywords) ==
    IF items = <<>> THEN [with |-> with_keywords, without |-> without_keywords]
    ELSE IF has_relevance_keywords(Head(items))
         THEN SplitByKeywords(Tail(items), Append(with_keywords, Head(items)),
                              without_keywords)
         ELSE SplitByKeywords(Tail(items), with_keywords,
                              Append(without_keywords, Head(items)))

KeepInputOrder(items) == items
prioritize_by_relevance(items) ==
    LET r == SplitByKeywords(items, <<>>, <<>>) IN r.with \o r.without

\* ---- main ----
\* [items[i:i + chunk_size] for i in range(0, len(items), chunk_size)]
\* the chunks of exactly chunk_size items only
ChunkFullOnly(items, chunk_size) ==
    [k \in 1..(Len(items) \div chunk_size) |->
        SubSeq(items, (k - 1) * chunk_size + 1, k * chunk_size)]
\* [items[i:i + chunk_size] for i in range(0, len(items), chunk_size)]
chunk_list(items, chunk_size) ==
    [k \in 1..((Len(items) + chunk_size - 1) \div chunk_size) |->
        SubSeq(items, (k - 1) * chunk_size + 1,
               IF k * chunk_size < Len(items) THEN k * chunk_size ELSE Len(items))]

batches == chunk_list(filtered_items, BATCH_SIZE)
\* one more than the batches there are
TotalBatchesOneMore == Len(batches) + 1
total_batches == Len(batches)
batch_num == batch_idx + 1
batch_items == batches[batch_num]

ZeroStats == [t \in ItemTypes |-> 0]

\* the environment check at the top of main: sys.exit(1) unless both are set
CredentialsPresentKeyOnly(e) == e.GEMINI_API_KEY
CredentialsPresent(e) == e.GEMINI_API_KEY /\ e.FEISHU_WEBHOOK_URL

Start ==
    /\ pc = "start"
    /\ pc' = IF CredentialsPresent(env) THEN "fetch_load" ELSE "exit1"
    /\ UNCHANGED <<ledgerFile, startFile, processed_ids, snapshot, all_new_items,
                   saveCaller, saveStatus, fileBeforeSave, stoppedAt,
                   mainLocals, fetchOnly, env, aux, collab>>

\* `not items` on a list
NothingToDoNever(items) == FALSE
NothingToDo(items) == items = <<>>

\* if not new_items: return
NothingNew ==
    /\ pc = "fetch_returned"
    /\ NothingToDo(new_items)
    /\ pc' = "done"
    /\ saveStatus' = "none"
    /\ fileBeforeSave' = MissingFile
    /\ UNCHANGED <<ledgerFile, startFile, processed_ids, snapshot, all_new_items,
                   saveCaller, stoppedAt, mainLocals, fetchOnly, env, aux, collab>>

\* if not filtered_items: return
NothingAfterFilter ==
    /\ pc = "fetch_returned"
    /\ ~NothingToDo(new_items)
    /\ NothingToDo(pre_filter(new_items))
    /\ pc' = "done"
    /\ saveStatus' = "none"
    /\ fileBeforeSave' = MissingFile
    /\ UNCHANGED <<ledgerFile, startFile, processed_ids, snapshot, all_new_items,
                   saveCaller, stoppedAt, mainLocals, fetchOnly, env, aux, collab>>

\* pre_filter, prioritize, load the ledger again, chunk, reset the counters
PrepareWith(loaded) ==
    /\ pc = "fetch_returned"
    /\ ~NothingToDo(new_items)
    /\ ~NothingToDo(pre_filter(new_items))
    /\ filtered_items' = prioritize_by_relevance(pre_filter(new_items))
    /\ processed_ids' = loaded
    /\ batch_idx' = 0
    /\ analysis' = "none"
    /\ relevant_in_batch' = <<>>
    /\ total_relevant' = 0
    /\ total_sent' = 0
    /\ relevant_stats' = ZeroStats
    /\ saveStatus' = "none"
    /\ fileBeforeSave' = MissingFile
    /\ pc' = "classify"
    /\ UNCHANGED <<ledgerFile, startFile, snapshot, all_new_items, new_items,
                   saveCaller, stoppedAt, fetchOnly, env, aux, collab>>

Prepare == PrepareWith(load_processed_posts(ledgerFile))
PrepareReadError == ReadableIds(ledgerFile) /\ PrepareWith({})

\* ---- the LLM response, parse_batch_response and the mapping to items ----
IndexVals == (0 - (BATCH_SIZE + 1))..BATCH_SIZE

\* an element of the parsed JSON array: not an object, an object without "index",
\* an object whose "index" is not a number, or an object with an integer index
ResultVals ==
    [kind : {"other", "noindex", "strindex"}, index : {0}, is_relevant : {TRUE}]
    \cup [kind : {"dict"}, index : IndexVals, is_relevant : BOOLEAN]

ResultSeqs == SeqsUpTo(ResultVals, MaxResults) \ {<<>>}

\* A response text, by what parse_batch_response makes of it once the markdown
\* fences are removed:
\*   whole     - json.loads(text): a list, another JSON value, or JSONDecodeError
\*   bracketed - the match of \[[\s\S]*\] in the text: none, a list, or a text
\*               json.loads rejects
\*   array     - the result objects the text spells out
Responses ==
    {r \in [whole : {"list", "value", "invalid"},
            bracketed : {"none", "list", "invalid"},
            array : ResultSeqs \cup {<<>>}] :
        r.whole = "list" => r.bracketed = "list"}

WholeIsList(resp) == resp.whole = "list"
BracketedIsListLenient(resp) == resp.bracketed # "none"
BracketedIsList(resp) == resp.bracketed = "list"

parse_batch_response(resp) ==
    IF WholeIsList(resp) THEN resp.array
    ELSE IF BracketedIsList(resp) THEN resp.array
    ELSE <<>>

\* batch_items[idx] of Python, idx 0-based, negative counting from the end
PyIndexOk(items, idx) == idx < Len(items) /\ idx >= 0 - Len(items)
PyIndex(items, idx) == IF idx >= 0 THEN items[idx + 1] ELSE items[Len(items) + idx + 1]

\* idx is None or idx >= len(batch_items)
SkipIndexNoUpper(idx, n) == FALSE
SkipIndex(idx, n) == idx >= n

\* the loop "for result in results" of main: the relevant items found, the
\* per-type counters, and whether an exception escaped
RECURSIVE MapResults(_, _, _, _)
MapResults(results, items, found, stats) ==
    IF results = <<>> THEN [found |-> found, stats |-> stats, raised |-> FALSE]
    ELSE LET r == Head(results) IN
         IF r.kind = "other" \/ r.kind = "noindex"
         THEN MapResults(Tail(results), items, found, stats)
         ELSE IF r.kind = "strindex"
         THEN [found |-> found, stats |-> stats, raised |-> TRUE]
         ELSE IF SkipIndex(r.index, Len(items))
         THEN MapResults(Tail(results), items, found, stats)
         ELSE IF ~r.is_relevant
         THEN MapResults(Tail(results), items, found, stats)
         ELSE IF ~PyIndexOk(items, r.index)
         THEN [found |-> found, stats |-> stats, raised |-> TRUE]
         ELSE LET item == PyIndex(items, r.index) IN
              MapResults(Tail(results), items, Append(found, item),
                         [stats EXCEPT ![item.type] = @ + 1])

\* what is in memory when a process starts; also what is left of it when the
\* process has been killed or has died of an exception
MemoryCleared ==
    /\ processed_ids' = {}
    /\ snapshot' = {}
    /\ all_new_items' = <<>>
    /\ new_items' = <<>>
    /\ filtered_items' = <<>>
    /\ batch_idx' = 0
    /\ analysis' = "none"
    /\ relevant_in_batch' = <<>>
    /\ total_relevant' = 0
    /\ total_sent' = 0
    /\ relevant_stats' = ZeroStats
    /\ saveCaller' = "none"
    /\ saveStatus' = "none"
    /\ llm_calls' = 0
    /\ deliveries' = <<>>
    /\ batch_events' = <<>>

\* analyze_batch: generate_content raised a throttling error ("429" or "quota" in
\* the message): sleep 30 s, then return analyze_batch(items, ...), which calls
\* the LLM again and handles a throttling error in the same way
AnalyzeThrottled ==
    /\ pc = "classify"
    /\ llm_calls + 1 < MaxLlmCalls
    /\ llm_calls' = llm_calls + 1
    /\ UNCHANGED <<pc, ledgerFile, startFile, processed_ids, snapshot, all_new_items,
                   saveCaller, saveStatus, fileBeforeSave, stoppedAt, mainLocals,
                   fetchOnly, env, aux, response, deliveries>>

\* results = analyze_batch(...) and the mapping loop.  The LLM call that settles
\* analyze_batch either raises an error that is not retried (NoResponse: the
\* result is []) or returns a response, which parse_batch_response turns into
\* results; an empty parse is reported as a parse failure and gives [] as well.
\* An exception of the mapping loop is caught nowhere: the process dies
ClassifyFrom(responses) ==
    /\ pc = "classify"
    /\ \E resp \in {NoResponse} \cup responses :
          LET results == IF resp = NoResponse THEN <<>> ELSE parse_batch_response(resp)
              outcome == IF resp = NoResponse THEN "error"
                         ELSE IF results # <<>> THEN "ok" ELSE "parse_fail"
              m == MapResults(results, batch_items, <<>>, relevant_stats)
          IN
          /\ response' = resp
          /\ IF m.raised
             THEN /\ pc' = "aborted"
                  /\ stoppedAt' = "classify"
                  /\ MemoryCleared
                  /\ UNCHANGED <<ledgerFile, startFile, fileBeforeSave, fetchOnly, env, standalone>>
             ELSE /\ pc' = "notify"
                  /\ analysis' = outcome
                  /\ relevant_in_batch' = m.found
                  /\ relevant_stats' = m.stats
                  /\ llm_calls' = llm_calls + 1
                  /\ batch_events' = Append(batch_events, "classify")
                  /\ UNCHANGED <<ledgerFile, startFile, processed_ids, snapshot,
                                 all_new_items, new_items, filtered_items, batch_idx,
                                 total_relevant, total_sent, saveCaller, saveStatus,
                                 fileBeforeSave, stoppedAt, fetchOnly, env, standalone,
                                 deliveries>>

Classify == ClassifyFrom(Responses)

\* the response is a JSON array of up to MaxListedResults results, which may name
\* an index more than once and hold more results than the batch has items
ClassifyListed ==
    ClassifyFrom([whole : {"list"}, bracketed : {"list"},
                  array : SeqsUpTo(ResultVals, MaxListedResults) \ {<<>>}])

\* ---- feishu_notifier.py ----
\* what one webhook call comes to: accepted, answered with an error code, or an
\* exception (unreachable, timeout, no JSON in the answer)
DeliveryOutcomes == {"ok", "rejected", "unreachable"}

\* send_to_feishu returns True only for an accepted message; every exception is
\* caught inside it
send_to_feishu(outcome) == outcome = "ok"

\* the outcomes of the calls send_batch_to_feishu makes: one per post
RECURSIVE AttemptsUntilFailure(_, _)
AttemptsUntilFailure(posts, outcomes) ==
    IF posts = <<>> THEN <<>>
    ELSE IF ~send_to_feishu(Head(outcomes)) THEN <<Head(outcomes)>>
    ELSE <<Head(outcomes)>> \o AttemptsUntilFailure(Tail(posts), Tail(outcomes))
RECURSIVE Attempts(_, _)
Attempts(posts, outcomes) ==
    IF posts = <<>> THEN <<>>
    ELSE <<Head(outcomes)>> \o Attempts(Tail(posts), Tail(outcomes))

\* success_count of send_batch_to_feishu
RECURSIVE send_batch_to_feishu(_)
send_batch_to_feishu(attempts) ==
    IF attempts = <<>> THEN 0
    ELSE (IF send_to_feishu(Head(attempts)) THEN 1 ELSE 0)
         + send_batch_to_feishu(Tail(attempts))

\* if relevant_in_batch: sent = send_batch_to_feishu(...); each delivery may fail.
\* The response and the call count of the finished analyze_batch are not read
\* again: they are reset here
Notify ==
    /\ pc = "notify"
    /\ IF relevant_in_batch # <<>>
       THEN \E outcomes \in [1..Len(relevant_in_batch) -> DeliveryOutcomes] :
               /\ deliveries' = Attempts(relevant_in_batch, outcomes)
               /\ total_sent' = total_sent + send_batch_to_feishu(deliveries')
               /\ total_relevant' = total_relevant + Len(relevant_in_batch)
       ELSE /\ deliveries' = <<>>
            /\ UNCHANGED <<total_sent, total_relevant>>
    /\ batch_events' = IF relevant_in_batch # <<>>
                       THEN Append(batch_events, "notify") ELSE batch_events
    /\ llm_calls' = 0
    /\ response' = NoResponse
    /\ pc' = "checkpoint"
    /\ UNCHANGED <<ledgerFile, startFile, processed_ids, snapshot, all_new_items,
                   new_items, filtered_items, batch_idx, analysis, relevant_in_batch,
                   relevant_stats, saveCaller, saveStatus, fileBeforeSave, stoppedAt,
                   fetchOnly, env, standalone>>

\* the ids main adds for a batch: item.get('id', ...) when it is not empty
BatchIds(items) == {items[i].id : i \in 1..Len(items)} \ {EmptyId}

\* mark the batch processed and call save_processed_posts(processed_ids).
\* relevant_in_batch and the delivery outcomes are not read again before the next
\* iteration resets them: they are cleared here
Checkpoint ==
    /\ pc = "checkpoint"
    /\ processed_ids' = processed_ids \cup BatchIds(batch_items)
    /\ saveCaller' = "batch"
    /\ relevant_in_batch' = <<>>
    /\ deliveries' = <<>>
    /\ batch_events' = Append(batch_events, "checkpoint")
    /\ pc' = "save_open"
    /\ UNCHANGED <<ledgerFile, startFile, snapshot, all_new_items, new_items,
                   filtered_items, batch_idx, analysis, total_relevant, total_sent,
                   relevant_stats, saveStatus, fileBeforeSave, stoppedAt,
                   fetchOnly, env, standalone, llm_calls, response>>

\* if batch_num < total_batches: time.sleep(REQUEST_DELAY); next iteration
Sleep ==
    /\ pc = "batch_end"
    /\ batch_num < total_batches
    /\ batch_idx' = batch_idx + 1
    /\ analysis' = "none"
    /\ saveStatus' = "none"
    /\ fileBeforeSave' = MissingFile
    /\ batch_events' = <<"sleep">>
    /\ pc' = "classify"
    /\ UNCHANGED <<ledgerFile, startFile, processed_ids, snapshot, all_new_items,
                   new_items, filtered_items, relevant_in_batch, total_relevant,
                   total_sent, relevant_stats, saveCaller, stoppedAt, fetchOnly, env,
                   standalone, collab>>

\* after the last batch, if total_relevant > 0: send_summary_to_feishu({...}).
\* The function takes (total, relevant, sent); called with one dict it raises
\* TypeError, which nothing catches
SummaryCall ==
    /\ pc = "batch_end"
    /\ batch_num >= total_batches
    /\ total_relevant > 0
    /\ pc' = "aborted"
    /\ stoppedAt' = "summary"
    /\ MemoryCleared
    /\ response' = NoResponse
    /\ fileBeforeSave' = MissingFile
    /\ UNCHANGED <<ledgerFile, startFile, fetchOnly, env, standalone>>

\* after the last batch, with nothing relevant: the final report, and main returns
Finish ==
    /\ pc = "batch_end"
    /\ batch_num >= total_batches
    /\ total_relevant = 0
    /\ pc' = "done"
    /\ saveStatus' = "none"
    /\ fileBeforeSave' = MissingFile
    /\ UNCHANGED <<ledgerFile, startFile, processed_ids, snapshot, all_new_items,
                   saveCaller, stoppedAt, mainLocals, fetchOnly, env, aux, collab>>

\* ---- the process is terminated from outside ----
RunningPcs == {"fetch_load", "fetch_posts", "fetch_comments", "fetch_search",
               "save_open", "save_write", "fetch_return", "fetch_returned",
               "classify", "notify", "checkpoint", "batch_end"}

\* a kill at any point after fetch has started.  The file is what it is at that
\* moment; the memory of the process is gone (fileBeforeSave stays as the record
\* of an interrupted save)
Kill ==
    /\ pc \in RunningPcs
    /\ stoppedAt' = pc
    /\ pc' = "killed"
    /\ MemoryCleared
    /\ response' = NoResponse
    /\ UNCHANGED <<ledgerFile, startFile, fileBeforeSave, fetchOnly, env, standalone>>

NoFeeds == [t \in ItemTypes |-> <<>>]

Init ==
    /\ pc = "start"
    /\ ledgerFile \in InitFiles
    /\ startFile = ledgerFile
    /\ processed_ids = {}
    /\ snapshot = {}
    /\ all_new_items = <<>>
    /\ new_items = <<>>
    /\ filtered_items = <<>>
    /\ batch_idx = 0
    /\ analysis = "none"
    /\ relevant_in_batch = <<>>
    /\ total_relevant = 0
    /\ total_sent = 0
    /\ relevant_stats = ZeroStats
    /\ saveCaller = "none"
    /\ saveStatus = "none"
    /\ fileBeforeSave = MissingFile
    /\ stoppedAt = "none"
    /\ feeds = NoFeeds
    /\ callNo = 0
    /\ firstResult = <<>>
    /\ env \in Envs
    /\ llm_calls = 0
    /\ response = NoResponse
    /\ deliveries = <<>>
    /\ AuxIdle
    /\ batch_events = <<>>

Next ==
    \/ Start
    \/ FetchLoad
    \/ FetchLoadReadError
    \/ FetchPostsAny
    \/ FetchCommentsAny
    \/ FetchSearchAny
    \/ SaveOpenFails
    \/ SaveOpen
    \/ SaveWrite
    \/ SaveWriteFails
    \/ FetchReturn
    \/ NothingNew
    \/ NothingAfterFilter
    \/ Prepare
    \/ PrepareReadError
    \/ AnalyzeThrottled
    \/ Classify
    \/ Notify
    \/ Checkpoint
    \/ Sleep
    \/ SummaryCall
    \/ Finish
    \/ Kill

Spec == Init /\ [][Next]_vars

\* ---- fetch_all_new_posts called twice against the same feeds ----
FixedFeeds == [ItemTypes -> SeqsUpTo(Entries, MaxFixedLen)]

FetchPostsFixed == FetchPosts(feeds["post"])
FetchCommentsFixed == FetchComments(feeds["comment"])
FetchSearchFixed == FetchSearch(feeds["search"])

\* the ledger file is put back as it was before the first call, and
\* fetch_all_new_posts is called again in the same process
CallAgain ==
    /\ pc = "fetch_returned"
    /\ callNo = 1
    /\ firstResult' = new_items
    /\ ledgerFile' = startFile
    /\ callNo' = 2
    /\ pc' = "fetch_load"
    /\ UNCHANGED <<startFile, processed_ids, snapshot, all_new_items, saveCaller,
                   saveStatus, fileBeforeSave, stoppedAt, mainLocals, feeds, env, aux, collab>>

InitFetch ==
    /\ pc = "fetch_load"
    /\ ledgerFile \in InitFiles
    /\ startFile = ledgerFile
    /\ processed_ids = {}
    /\ snapshot = {}
    /\ all_new_items = <<>>
    /\ new_items = <<>>
    /\ filtered_items = <<>>
    /\ batch_idx = 0
    /\ analysis = "none"
    /\ relevant_in_batch = <<>>
    /\ total_relevant = 0
    /\ total_sent = 0
    /\ relevant_stats = ZeroStats
    /\ saveCaller = "none"
    /\ saveStatus = "none"
    /\ fileBeforeSave = MissingFile
    /\ stoppedAt = "none"
    /\ feeds \in FixedFeeds
    /\ callNo = 1
    /\ firstResult = <<>>
    /\ env = AllSet
    /\ llm_calls = 0
    /\ response = NoResponse
    /\ deliveries = <<>>
    /\ AuxIdle
    /\ batch_events = <<>>

NextFetch ==
    \/ FetchLoad
    \/ FetchPostsFixed
    \/ FetchCommentsFixed
    \/ FetchSearchFixed
    \/ SaveOpenFails
    \/ SaveOpen
    \/ SaveWrite
    \/ SaveWriteFails
    \/ FetchReturn
    \/ CallAgain

SpecFetch == InitFetch /\ [][NextFetch]_vars

\* ---- fetch_all_new_posts when the feeds repeat entries ----
\* The post feeds and the search feeds deliver any entries, an entry more than
\* once and the same entry in both; the comment feeds deliver nothing.
RepeatingFeeds(maxLen) ==
    {f \in [ItemTypes -> SeqsUpTo(Entries, maxLen)] : f["comment"] = <<>>}

InitRepeat ==
    /\ pc = "fetch_load"
    /\ ledgerFile \in InitFiles
    /\ startFile = ledgerFile
    /\ processed_ids = {}
    /\ snapshot = {}
    /\ all_new_items = <<>>
    /\ new_items = <<>>
    /\ filtered_items = <<>>
    /\ batch_idx = 0
    /\ analysis = "none"
    /\ relevant_in_batch = <<>>
    /\ total_relevant = 0
    /\ total_sent = 0
    /\ relevant_stats = ZeroStats
    /\ saveCaller = "none"
    /\ saveStatus = "none"
    /\ fileBeforeSave = MissingFile
    /\ stoppedAt = "none"
    /\ feeds \in RepeatingFeeds(MaxFeedLen)
    /\ callNo = 1
    /\ firstResult = <<>>
    /\ env = AllSet
    /\ llm_calls = 0
    /\ response = NoResponse
    /\ deliveries = <<>>
    /\ AuxIdle
    /\ batch_events = <<>>

SpecRepeat == InitRepeat /\ [][NextFetch]_vars

\* ---- save_processed_posts on any id set ----
InitSave ==
    /\ pc = "save_open"
    /\ ledgerFile \in InitFiles
    /\ startFile = ledgerFile
    /\ processed_ids \in SUBSET Ids
    /\ snapshot = {}
    /\ all_new_items = <<>>
    /\ new_items = <<>>
    /\ filtered_items = <<>>
    /\ batch_idx = 0
    /\ analysis = "none"
    /\ relevant_in_batch = <<>>
    /\ total_relevant = 0
    /\ total_sent = 0
    /\ relevant_stats = ZeroStats
    /\ saveCaller \in {"fetch", "batch"}
    /\ saveStatus = "none"
    /\ fileBeforeSave = MissingFile
    /\ stoppedAt = "none"
    /\ feeds = NoFeeds
    /\ callNo = 0
    /\ firstResult = <<>>
    /\ env = AllSet
    /\ llm_calls = 0
    /\ response = NoResponse
    /\ deliveries = <<>>
    /\ AuxIdle
    /\ batch_events = <<>>

NextSave ==
    \/ SaveOpenFails
    \/ SaveOpen
    \/ SaveWrite
    \/ SaveWriteFails

SpecSave == InitSave /\ [][NextSave]_vars

\* ---- pre_filter and prioritize_by_relevance on any item list ----
\* One item with a free title and one of a few contents, placed anywhere among
\* items as the feeds deliver them.
Titles == SeqsUpTo(Chars, MaxTextLen)
Contents == {<<>>, <<"b">>, <<"B", "a">>}
FreeItems ==
    {[id |-> NumIds + 1, type |-> "post", title |-> t, content |-> c] :
        t \in Titles, c \in Contents}
FeedItems == {MakeItem(e, "post") : e \in Entries}
InsertAt(s, k, x) == SubSeq(s, 1, k - 1) \o <<x>> \o SubSeq(s, k, Len(s))
ItemLists(maxLen) ==
    {<<>>} \cup
    UNION {{InsertAt(rest, k, x) : k \in 1..(Len(rest) + 1), x \in FreeItems} :
              rest \in SeqsUpTo(FeedItems, maxLen - 1)}

\* filtered_items = pre_filter(new_items)
ApplyPreFilter ==
    /\ pc = "items_given"
    /\ filtered_items' = pre_filter(new_items)
    /\ pc' = "filtered"
    /\ UNCHANGED <<ledgerFile, startFile, processed_ids, snapshot, all_new_items,
                   new_items, batch_idx, analysis, relevant_in_batch,
                   total_relevant, total_sent, relevant_stats, saveCaller,
                   saveStatus, fileBeforeSave, stoppedAt, fetchOnly, env, aux, collab>>

\* filtered_items = prioritize_by_relevance(filtered_items), here on any list
ApplyPrioritize ==
    /\ pc = "items_given"
    /\ filtered_items' = prioritize_by_relevance(new_items)
    /\ pc' = "prioritized"
    /\ UNCHANGED <<ledgerFile, startFile, processed_ids, snapshot, all_new_items,
                   new_items, batch_idx, analysis, relevant_in_batch,
                   total_relevant, total_sent, relevant_stats, saveCaller,
                   saveStatus, fileBeforeSave, stoppedAt, fetchOnly, env, aux, collab>>

InitPrefilter ==
    /\ pc = "items_given"
    /\ ledgerFile = MissingFile
    /\ startFile = ledgerFile
    /\ processed_ids = {}
    /\ snapshot = {}
    /\ all_new_items = <<>>
    /\ new_items \in ItemLists(MaxListLen)
    /\ filtered_items = <<>>
    /\ batch_idx = 0
    /\ analysis = "none"
    /\ relevant_in_batch = <<>>
    /\ total_relevant = 0
    /\ total_sent = 0
    /\ relevant_stats = ZeroStats
    /\ saveCaller = "none"
    /\ saveStatus = "none"
    /\ fileBeforeSave = MissingFile
    /\ stoppedAt = "none"
    /\ feeds = NoFeeds
    /\ callNo = 0
    /\ firstResult = <<>>
    /\ env = AllSet
    /\ llm_calls = 0
    /\ response = NoResponse
    /\ deliveries = <<>>
    /\ AuxIdle
    /\ batch_events = <<>>

NextPrefilter ==
    \/ ApplyPreFilter
    \/ ApplyPrioritize

SpecPrefilter == InitPrefilter /\ [][NextPrefilter]_vars

\* ---- main after fetch_all_new_posts has returned ----
\* fetch returns items with distinct ids, of any type
ReturnedLists ==
    {l \in SeqsUpTo({MakeItem(e, t) : e \in Entries, t \in ItemTypes}, MaxFeedLen) :
        \A i, j \in 1..Len(l) : l[i].id = l[j].id => i = j}

InitBatch ==
    /\ pc = "fetch_returned"
    /\ ledgerFile \in InitFiles
    /\ startFile = ledgerFile
    /\ processed_ids = {}
    /\ snapshot = {}
    /\ all_new_items = <<>>
    /\ new_items \in ReturnedLists
    /\ filtered_items = <<>>
    /\ batch_idx = 0
    /\ analysis = "none"
    /\ relevant_in_batch = <<>>
    /\ total_relevant = 0
    /\ total_sent = 0
    /\ relevant_stats = ZeroStats
    /\ saveCaller = "none"
    /\ saveStatus = "none"
    /\ fileBeforeSave = MissingFile
    /\ stoppedAt = "none"
    /\ feeds = NoFeeds
    /\ callNo = 0
    /\ firstResult = <<>>
    /\ env = AllSet
    /\ llm_calls = 0
    /\ response = NoResponse
    /\ deliveries = <<>>
    /\ AuxIdle
    /\ batch_events = <<>>

NextBatch ==
    \/ NothingNew
    \/ NothingAfterFilter
    \/ Prepare
    \/ PrepareReadError
    \/ AnalyzeThrottled
    \/ Classify
    \/ Notify
    \/ Checkpoint
    \/ SaveOpenFails
    \/ SaveOpen
    \/ SaveWrite
    \/ SaveWriteFails
    \/ Sleep
    \/ SummaryCall
    \/ Finish

SpecBatch == InitBatch /\ [][NextBatch]_vars

\* ---- the batch loop from the point where the relevant items are known ----
\* The results of a batch may name the same item more than once and in any
\* order: relevant_in_batch is any list of items of the batch.
InitNotify ==
    /\ pc = "notify"
    /\ ledgerFile \in InitFiles
    /\ startFile = ledgerFile
    /\ processed_ids = load_processed_posts(ledgerFile)
    /\ snapshot = {}
    /\ all_new_items = <<>>
    /\ new_items \in ReturnedLists
    /\ filtered_items = prioritize_by_relevance(pre_filter(new_items))
    /\ filtered_items # <<>>
    /\ batch_idx = 0
    /\ analysis \in {"ok", "error"}
    /\ relevant_in_batch \in
          IF analysis = "ok" THEN SeqsUpTo(Range(batch_items), MaxListLen) ELSE {<<>>}
    /\ total_relevant = 0
    /\ total_sent = 0
    /\ relevant_stats = ZeroStats
    /\ saveCaller = "none"
    /\ saveStatus = "none"
    /\ fileBeforeSave = MissingFile
    /\ stoppedAt = "none"
    /\ feeds = NoFeeds
    /\ callNo = 0
    /\ firstResult = <<>>
    /\ env = AllSet
    /\ llm_calls = 1
    /\ response = NoResponse
    /\ deliveries = <<>>
    /\ AuxIdle
    /\ batch_events = <<"classify">>

NextNotify ==
    \/ Notify
    \/ Checkpoint
    \/ SaveOpenFails
    \/ SaveOpen
    \/ SaveWrite
    \/ SaveWriteFails
    \/ Sleep
    \/ SummaryCall
    \/ Finish

SpecNotify == InitNotify /\ [][NextNotify]_vars

\* ---- one batch: analyze_batch, the mapping of its results, the notification ----
InitClassify ==
    /\ pc = "classify"
    /\ ledgerFile = MissingFile
    /\ startFile = ledgerFile
    /\ processed_ids = {}
    /\ snapshot = {}
    /\ all_new_items = <<>>
    /\ new_items \in ReturnedLists
    /\ filtered_items = prioritize_by_relevance(pre_filter(new_items))
    /\ filtered_items # <<>>
    /\ batch_idx \in 0..(total_batches - 1)
    /\ analysis = "none"
    /\ relevant_in_batch = <<>>
    /\ total_relevant = 0
    /\ total_sent = 0
    /\ relevant_stats = ZeroStats
    /\ saveCaller = "none"
    /\ saveStatus = "none"
    /\ fileBeforeSave = MissingFile
    /\ stoppedAt = "none"
    /\ feeds = NoFeeds
    /\ callNo = 0
    /\ firstResult = <<>>
    /\ env = AllSet
    /\ llm_calls = 0
    /\ response = NoResponse
    /\ deliveries = <<>>
    /\ AuxIdle
    /\ batch_events = IF batch_idx > 0 THEN <<"sleep">> ELSE <<>>

NextClassify ==
    \/ AnalyzeThrottled
    \/ Classify
    \/ Notify

SpecClassify == InitClassify /\ [][NextClassify]_vars

\* ---- main from its start to the first call of analyze_batch ----
\* The credential check, fetch_all_new_posts with its save, the two early returns
\* and the preparation of the batch loop.
NextEntry ==
    \/ Start
    \/ FetchLoad
    \/ FetchLoadReadError
    \/ FetchPostsAny
    \/ FetchCommentsAny
    \/ FetchSearchAny
    \/ SaveOpenFails
    \/ SaveOpen
    \/ SaveWrite
    \/ SaveWriteFails
    \/ FetchReturn
    \/ NothingNew
    \/ NothingAfterFilter
    \/ Prepare
    \/ PrepareReadError

SpecEntry == Init /\ [][NextEntry]_vars

\* ---- the batch loop of main, from its first iteration to the end of the run ----
\* fetch returned items with distinct ids, each id with one type; the ledger file
\* did not exist
LoopInputs(maxLen) ==
    {l \in SeqsUpTo({MakeItem(e, IF e.id % 3 = 0 THEN "post"
                                  ELSE IF e.id % 3 = 1 THEN "comment" ELSE "search") :
                        e \in Entries}, maxLen) :
        \A i, j \in 1..Len(l) : l[i].id = l[j].id => i = j}

InitLoop ==
    /\ pc = "classify"
    /\ ledgerFile = MissingFile
    /\ startFile = ledgerFile
    /\ processed_ids = {}
    /\ snapshot = {}
    /\ all_new_items = <<>>
    /\ new_items \in LoopInputs(MaxFeedLen)
    /\ filtered_items = prioritize_by_relevance(pre_filter(new_items))
    /\ filtered_items # <<>>
    /\ batch_idx = 0
    /\ analysis = "none"
    /\ relevant_in_batch = <<>>
    /\ total_relevant = 0
    /\ total_sent = 0
    /\ relevant_stats = ZeroStats
    /\ saveCaller = "none"
    /\ saveStatus = "none"
    /\ fileBeforeSave = MissingFile
    /\ stoppedAt = "none"
    /\ feeds = NoFeeds
    /\ callNo = 0
    /\ firstResult = <<>>
    /\ env = AllSet
    /\ llm_calls = 0
    /\ response = NoResponse
    /\ deliveries = <<>>
    /\ AuxIdle
    /\ batch_events = <<>>

NextLoop ==
    \/ AnalyzeThrottled
    \/ Classify
    \/ Notify
    \/ Checkpoint
    \/ SaveOpenFails
    \/ SaveOpen
    \/ SaveWrite
    \/ SaveWriteFails
    \/ Sleep
    \/ SummaryCall
    \/ Finish

SpecLoop == InitLoop /\ [][NextLoop]_vars

\* the batch loop when the LLM answers with longer result arrays
NextLoopListed ==
    \/ AnalyzeThrottled
    \/ ClassifyListed
    \/ Notify
    \/ Checkpoint
    \/ SaveOpenFails
    \/ SaveOpen
    \/ SaveWrite
    \/ SaveWriteFails
    \/ Sleep
    \/ SummaryCall
    \/ Finish

SpecLoopListed == InitLoop /\ [][NextLoopListed]_vars

\* ---- fetch_all_new_posts source by source ----
\* two of the configured subreddits, and two search keywords (src/config.py does
\* not define SEARCH_KEYWORDS)
SUBREDDITS == <<"gamedev", "godot">>
SEARCH_KEYWORDS == <<"no code game", "game maker">>

\* the sources of one stage, in the order the stage's loop visits them
Sources(type) ==
    IF type = "search" THEN (IF ENABLE_KEYWORD_SEARCH THEN SEARCH_KEYWORDS ELSE <<>>)
    ELSE IF type = "comment" THEN (IF MONITOR_COMMENTS THEN SUBREDDITS ELSE <<>>)
    ELSE SUBREDDITS

\* fetch_subreddit_posts / fetch_subreddit_comments / fetch_keyword_search on what
\* parse_feed_with_retry returned: `if not feed: return []`, else the entries
FetchSourceStale(result) ==
    IF result.kind = "None" THEN <<[id |-> 1]>> ELSE result.entries
fetch_source(result) ==
    IF result.kind = "None" THEN <<>> ELSE result.entries

\* one iteration of a `for subreddit in SUBREDDITS` / `for keyword in
\* SEARCH_KEYWORDS` loop: fetch the source, keep its new items, go on
FetchSource ==
    /\ pc \in {"fetch_posts", "fetch_comments", "fetch_search"}
    /\ LET type == IF pc = "fetch_posts" THEN "post"
                   ELSE IF pc = "fetch_comments" THEN "comment" ELSE "search"
           after == IF pc = "fetch_posts" THEN "fetch_comments"
                    ELSE IF pc = "fetch_comments" THEN "fetch_search" ELSE "save_open"
           k == Cardinality({i \in 1..Len(source_log) : source_log[i].type = type}) + 1
       IN
       /\ k <= Len(Sources(type))
       /\ \E result \in {[kind |-> "None", entries |-> <<>>]} \cup
                          [kind : {"feed"}, entries : SeqsUpTo(Entries, MaxFixedLen)] :
             LET r == FetchLoop(all_new_items, processed_ids, fetch_source(result), type)
             IN
             /\ all_new_items' = r.items
             /\ processed_ids' = r.pids
             /\ source_log' = Append(source_log,
                                     [type |-> type, source |-> Sources(type)[k],
                                      failed |-> result.kind = "None",
                                      kept |-> Len(r.items) - Len(all_new_items)])
       /\ pc' = IF k < Len(Sources(type)) THEN pc ELSE after
       /\ saveCaller' = IF k < Len(Sources(type)) \/ after # "save_open"
                        THEN saveCaller ELSE "fetch"
    /\ UNCHANGED <<ledgerFile, startFile, snapshot, saveStatus, fileBeforeSave,
                   stoppedAt, mainLocals, fetchOnly, env, collab, chunking, retrying,
                   batch_events>>

InitSources ==
    /\ pc = "fetch_load"
    /\ ledgerFile \in InitFiles
    /\ startFile = ledgerFile
    /\ processed_ids = {}
    /\ snapshot = {}
    /\ all_new_items = <<>>
    /\ new_items = <<>>
    /\ filtered_items = <<>>
    /\ batch_idx = 0
    /\ analysis = "none"
    /\ relevant_in_batch = <<>>
    /\ total_relevant = 0
    /\ total_sent = 0
    /\ relevant_stats = ZeroStats
    /\ saveCaller = "none"
    /\ saveStatus = "none"
    /\ fileBeforeSave = MissingFile
    /\ stoppedAt = "none"
    /\ feeds = NoFeeds
    /\ callNo = 0
    /\ firstResult = <<>>
    /\ env = AllSet
    /\ llm_calls = 0
    /\ response = NoResponse
    /\ deliveries = <<>>
    /\ AuxIdle
    /\ batch_events = <<>>

NextSources ==
    \/ FetchLoad
    \/ FetchSource
    \/ SaveOpenFails
    \/ SaveOpen
    \/ SaveWrite
    \/ SaveWriteFails
    \/ FetchReturn

SpecSources == InitSources /\ [][NextSources]_vars

\* ---- parse_feed_with_retry ----
\* if attempt < max_retries - 1: time.sleep(REQUEST_DELAY)
SleepBeforeRetryAlways(n, retries) == TRUE
SleepBeforeRetry(n, retries) == n < retries - 1

\* one iteration of `for attempt in range(max_retries)`: feedparser.parse returns
\* a well-formed feed, returns a feed with bozo set, or raises
ParseAttempt ==
    /\ pc = "retry_loop"
    /\ attempt < max_retries
    /\ \E outcome \in {"well_formed", "bozo", "raises"} :
          LET parsed == [call |-> "parse", attempt |-> attempt, outcome |-> outcome]
              slept == [call |-> "sleep", attempt |-> attempt, outcome |-> "none"]
          IN
          IF outcome = "well_formed"
          THEN /\ retry_log' = Append(retry_log, parsed)
               /\ feed' = [kind |-> "feed", of |-> attempt]
               /\ pc' = "retry_returned"
               /\ UNCHANGED attempt
          ELSE /\ retry_log' =
                     IF SleepBeforeRetry(attempt, max_retries)
                     THEN retry_log \o <<parsed, slept>>
                     ELSE Append(retry_log, parsed)
               /\ attempt' = attempt + 1
               /\ UNCHANGED <<feed, pc>>
    /\ UNCHANGED <<ledgerFile, startFile, processed_ids, snapshot, all_new_items,
                   saveCaller, saveStatus, fileBeforeSave, stoppedAt, mainLocals,
                   fetchOnly, env, collab, chunking, max_retries, source_log,
                   batch_events>>

\* the loop is exhausted: return None
ReturnNone ==
    /\ pc = "retry_loop"
    /\ attempt >= max_retries
    /\ feed' = [kind |-> "None", of |-> 0]
    /\ pc' = "retry_returned"
    /\ UNCHANGED <<ledgerFile, startFile, processed_ids, snapshot, all_new_items,
                   saveCaller, saveStatus, fileBeforeSave, stoppedAt, mainLocals,
                   fetchOnly, env, collab, chunking, max_retries, attempt,
                   retry_log, source_log, batch_events>>

InitRetry ==
    /\ pc = "retry_loop"
    /\ ledgerFile = MissingFile
    /\ startFile = ledgerFile
    /\ processed_ids = {}
    /\ snapshot = {}
    /\ all_new_items = <<>>
    /\ new_items = <<>>
    /\ filtered_items = <<>>
    /\ batch_idx = 0
    /\ analysis = "none"
    /\ relevant_in_batch = <<>>
    /\ total_relevant = 0
    /\ total_sent = 0
    /\ relevant_stats = ZeroStats
    /\ saveCaller = "none"
    /\ saveStatus = "none"
    /\ fileBeforeSave = MissingFile
    /\ stoppedAt = "none"
    /\ feeds = NoFeeds
    /\ callNo = 0
    /\ firstResult = <<>>
    /\ env = AllSet
    /\ llm_calls = 0
    /\ response = NoResponse
    /\ deliveries = <<>>
    /\ chunk_arg = 1
    /\ chunks = <<>>
    /\ max_retries \in 0..MaxRetriesArg
    /\ attempt = 0
    /\ retry_log = <<>>
    /\ feed = NotReturned
    /\ source_log = <<>>
    /\ batch_events = <<>>

NextRetry ==
    \/ ParseAttempt
    \/ ReturnNone

\* every feedparser.parse and time.sleep call returns, so the loop keeps going
SpecRetry == InitRetry /\ [][NextRetry]_vars /\ WF_vars(NextRetry)

\* ---- chunk_list on any list and any positive chunk size ----
ChunkInputs(maxLen) == SeqsUpTo({MakeItem(e, "post") : e \in Entries}, maxLen)

\* chunks = chunk_list(filtered_items, chunk_size)
ApplyChunkList ==
    /\ pc = "items_given"
    /\ chunks' = chunk_list(filtered_items, chunk_arg)
    /\ pc' = "chunked"
    /\ UNCHANGED <<ledgerFile, startFile, processed_ids, snapshot, all_new_items,
                   saveCaller, saveStatus, fileBeforeSave, stoppedAt, mainLocals,
                   fetchOnly, env, collab, chunk_arg, retrying, source_log,
                   batch_events>>

InitChunk ==
    /\ pc = "items_given"
    /\ ledgerFile = MissingFile
    /\ startFile = ledgerFile
    /\ processed_ids = {}
    /\ snapshot = {}
    /\ all_new_items = <<>>
    /\ new_items = <<>>
    /\ filtered_items \in ChunkInputs(MaxChunkInput)
    /\ batch_idx = 0
    /\ analysis = "none"
    /\ relevant_in_batch = <<>>
    /\ total_relevant = 0
    /\ total_sent = 0
    /\ relevant_stats = ZeroStats
    /\ saveCaller = "none"
    /\ saveStatus = "none"
    /\ fileBeforeSave = MissingFile
    /\ stoppedAt = "none"
    /\ feeds = NoFeeds
    /\ callNo = 0
    /\ firstResult = <<>>
    /\ env = AllSet
    /\ llm_calls = 0
    /\ response = NoResponse
    /\ deliveries = <<>>
    /\ chunk_arg \in 1..MaxChunkSize
    /\ chunks = <<>>
    /\ max_retries = 0
    /\ attempt = 0
    /\ retry_log = <<>>
    /\ feed = NotReturned
    /\ source_log = <<>>
    /\ batch_events = <<>>

NextChunk == ApplyChunkList

SpecChunk == InitChunk /\ [][NextChunk]_vars

\* ======================= properties =======================

\* the point where save_processed_posts has just returned to its caller
SaveReturned == pc \in {"fetch_return", "batch_end"} /\ saveStatus # "none"
SaveSucceeded == SaveReturned /\ saveStatus = "ok"

\* C1: when analyze_batch failed for batch k (empty result after a provider error),
\* every item id of batch k is in the persisted ledger once iteration k has
\* completed, and batch k+1, if there is one, is classified next.  Stated for the
\* iterations whose checkpoint save reported success, and for the non-empty ids
\* main records.
ClaimC1_FailedBatchCheckpointed ==
    (pc = "batch_end" /\ analysis = "error" /\ saveStatus = "ok") =>
        /\ BatchIds(batch_items) \subseteq LedgerIds(ledgerFile)
        /\ (batch_num < total_batches => ENABLED Sleep)

\* the ids of the items of the batches whose checkpoint has completed
CheckpointedBatches ==
    IF pc \in {"classify", "notify", "checkpoint", "save_open", "save_write"}
       /\ ~(saveCaller = "fetch" /\ pc \in {"save_open", "save_write"})
    THEN batch_idx
    ELSE IF pc = "batch_end" THEN batch_num ELSE 0
CheckpointedIds ==
    UNION {ItemIds(batches[k]) : k \in 1..CheckpointedBatches}

\* C2: whenever the run could be killed, the ids the run has added to the ledger
\* file are ids of items of batches whose checkpoint has completed.
ClaimC2_OnlyCheckpointedRecorded ==
    pc \in RunningPcs =>
        (LedgerIds(ledgerFile) \ LedgerIds(startFile)) \subseteq CheckpointedIds

\* C3: a process killed while save_processed_posts writes leaves the ledger file
\* either as it was before the save or complete, never empty or cut short.
ClaimC3_AtomicWrite ==
    (pc = "killed" /\ stoppedAt = "save_write") =>
        (ledgerFile = fileBeforeSave \/ ledgerFile.status = "valid")

\* C4: after every successful save_processed_posts, whatever the id set passed in,
\* the persisted ledger holds at most MAX_PROCESSED_POSTS ids.
ClaimC4_LedgerBound ==
    SaveSucceeded => Cardinality(LedgerIds(ledgerFile)) <= MAX_PROCESSED_POSTS

WitnessC4 ==
    /\ SaveSucceeded
    /\ Cardinality(processed_ids) > MAX_PROCESSED_POSTS
    /\ Cardinality(LedgerIds(ledgerFile)) = MAX_PROCESSED_POSTS

\* the ids of the last n items of a list
LastItemIds(items, n) == ItemIds(LastN(items, n))

\* C5: when fetch's save is given more than MAX_PROCESSED_POSTS ids, it retains
\* exactly the MAX_PROCESSED_POSTS most recently added ones: the ids added in this
\* call are newer than the ids loaded from the file, so a new id is evicted only
\* when no loaded id is kept.
ClaimC5_KeepsMostRecent ==
    (pc = "fetch_return" /\ saveStatus = "ok"
        /\ Cardinality(processed_ids) > MAX_PROCESSED_POSTS) =>
        /\ Cardinality(LedgerIds(ledgerFile)) = MAX_PROCESSED_POSTS
        /\ IF Len(all_new_items) >= MAX_PROCESSED_POSTS
           THEN LedgerIds(ledgerFile) = LastItemIds(all_new_items, MAX_PROCESSED_POSTS)
           ELSE ItemIds(all_new_items) \subseteq LedgerIds(ledgerFile)

\* C6: every id in the ledger file before a successful save (by fetch or by a
\* batch checkpoint) is still in it after the save, unless the size bound was
\* exceeded; also when the load before it failed and returned the empty set.
ClaimC6_LedgerMonotonic ==
    SaveSucceeded =>
        \A id \in LedgerIds(fileBeforeSave) :
            id \in LedgerIds(ledgerFile)
            \/ Cardinality(processed_ids) > MAX_PROCESSED_POSTS

\* C7: no item whose id is in the ledger loaded at the start of
\* fetch_all_new_posts is in the list the call returns, whatever its source type.
ClaimC7_DedupAgainstLedger ==
    pc \in {"fetch_posts", "fetch_comments", "fetch_search", "save_open",
            "save_write", "fetch_return"} =>
        \A i \in 1..Len(all_new_items) : all_new_items[i].id \notin snapshot

\* every source type delivered an entry, one of them a search hit already in the
\* ledger, and something was returned
WitnessC7 ==
    /\ pc = "fetch_return"
    /\ all_new_items # <<>>
    /\ \E k \in 1..Len(feeds["search"]) : feeds["search"][k].id \in snapshot
    /\ \E t \in {"post", "comment"} :
          \E k \in 1..Len(feeds[t]) : feeds[t][k].id \in snapshot

\* C8: when fetch_all_new_posts returns after a save that reported success, the
\* id of every item it returns is in the persisted ledger (so a run started after
\* a crash at this point does not return the item again).
ClaimC8_ReturnedIdsPersisted ==
    (pc = "fetch_return" /\ saveStatus = "ok") =>
        ItemIds(all_new_items) \subseteq LedgerIds(ledgerFile)

\* the entries the sources delivered in this call
FetchedIds == UNION {{feeds[t][k].id : k \in 1..Len(feeds[t])} : t \in ItemTypes}
DeliveredBy(t, id) == \E k \in 1..Len(feeds[t]) : feeds[t][k].id = id
FirstType(id) ==
    IF DeliveredBy("post", id) THEN "post"
    ELSE IF DeliveredBy("comment", id) THEN "comment" ELSE "search"

\* C9 as stated: the returned list is exactly the fetched entries whose id is not
\* in the start snapshot: each such entry of each source is in the list, an entry
\* delivered again by a later source included.
ClaimC9_EveryNewEntryReturned ==
    pc = "fetch_return" =>
        /\ \A t \in ItemTypes : \A k \in 1..Len(feeds[t]) :
              feeds[t][k].id \notin snapshot =>
                 \E i \in 1..Len(all_new_items) :
                    all_new_items[i] = MakeItem(feeds[t][k], t)
        /\ \A i \in 1..Len(all_new_items) :
              /\ all_new_items[i].id \notin snapshot
              /\ DeliveredBy(all_new_items[i].type, all_new_items[i].id)

\* C9 amended: the returned list holds one item for each fetched id that is not in
\* the start snapshot, namely its first retrieval in source order (posts,
\* comments, search); later retrievals of the same id are dropped.
ClaimC9_FirstRetrievalReturned ==
    pc = "fetch_return" =>
        /\ ItemIds(all_new_items) = FetchedIds \ snapshot
        /\ \A i, j \in 1..Len(all_new_items) :
              all_new_items[i].id = all_new_items[j].id => i = j
        /\ \A i \in 1..Len(all_new_items) :
              all_new_items[i].type = FirstType(all_new_items[i].id)

\* an id not in the snapshot was delivered as a post and again as a search hit
WitnessC9 ==
    /\ pc = "fetch_return"
    /\ \E id \in Ids \ snapshot :
          /\ DeliveredBy("post", id)
          /\ DeliveredBy("search", id)
          /\ \E i \in 1..Len(all_new_items) :
                all_new_items[i] = MakeItem([id |-> id], "post")

\* C10: the second call, against the same feeds and the restored ledger file,
\* returns the same set of new items as the first.
ClaimC10_FetchIdempotent ==
    (callNo = 2 /\ pc = "fetch_returned") => Range(new_items) = Range(firstResult)

\* the first call returned items and changed memory; the second returned them again
WitnessC10 ==
    /\ callNo = 2
    /\ pc = "fetch_returned"
    /\ firstResult # <<>>
    /\ new_items = firstResult
    /\ ItemIds(new_items) \subseteq LedgerIds(ledgerFile)

\* the title and the content of an item as pre_filter joins them, in their own case
JoinedText(item) == item.title \o <<" ">> \o item.content

\* the keyword occurs at some offset of the text, letter case ignored
Occurs(kw, text) ==
    \E off \in 0..(Len(text) - Len(kw)) :
        \A k \in 1..Len(kw) : LowerChar(text[off + k]) = LowerChar(kw[k])
MentionsAny(item, keywords) ==
    \E j \in 1..Len(keywords) : Occurs(keywords[j], JoinedText(item))

\* out lists in[i] for the i in idx, in increasing i, from position base + 1 on
ListsInOrder(out, in, idx, base) ==
    \A i \in idx : out[base + Cardinality({j \in idx : j <= i})] = in[i]

NotExcludedAt(items) ==
    {i \in 1..Len(items) : ~MentionsAny(items[i], EXCLUDE_KEYWORDS)}

\* C11: pre_filter returns exactly the input items whose title and content mention
\* no exclusion keyword (substring, letter case ignored), in their original
\* relative order; relevance keywords play no part.
ClaimC11_PreFilterExact ==
    pc = "filtered" =>
        /\ Len(filtered_items) = Cardinality(NotExcludedAt(new_items))
        /\ ListsInOrder(filtered_items, new_items, NotExcludedAt(new_items), 0)

\* an item that mentions an exclusion keyword only in another letter case was
\* dropped, and an item behind it was kept
WitnessC11 ==
    /\ pc = "filtered"
    /\ \E i, j \in 1..Len(new_items) :
          /\ i < j
          /\ i \notin NotExcludedAt(new_items)
          /\ \A k \in 1..Len(EXCLUDE_KEYWORDS) :
                ~In(EXCLUDE_KEYWORDS[k], JoinedText(new_items[i]))
          /\ j \in NotExcludedAt(new_items)
          /\ MentionsAny(new_items[j], RELEVANCE_KEYWORDS)
    /\ filtered_items # <<>>

RelevantAt(items) ==
    {i \in 1..Len(items) : MentionsAny(items[i], RELEVANCE_KEYWORDS)}

\* C12: prioritize_by_relevance is a stable partition: the output lists the items
\* that mention a relevance keyword in their input order, then the other items in
\* their input order, and nothing else.
ClaimC12_StablePartition ==
    pc = "prioritized" =>
        LET rel == RelevantAt(new_items)
            others == (1..Len(new_items)) \ rel
        IN /\ Len(filtered_items) = Len(new_items)
           /\ ListsInOrder(filtered_items, new_items, rel, 0)
           /\ ListsInOrder(filtered_items, new_items, others, Cardinality(rel))

\* two different items without a relevance keyword stood before one with
WitnessC12 ==
    /\ pc = "prioritized"
    /\ \E i, j, k \in 1..Len(new_items) :
          /\ i < j /\ j < k
          /\ new_items[i] # new_items[j]
          /\ {i, j} \cap RelevantAt(new_items) = {}
          /\ k \in RelevantAt(new_items)
    /\ filtered_items # new_items

\* the results main maps for the response at hand
ResultsAtHand == parse_batch_response(response)

\* the positions of the results that name an item of the batch and call it relevant
AttachableAt(results, n) ==
    {j \in 1..Len(results) :
        /\ results[j].kind = "dict"
        /\ results[j].index \in 0..(n - 1)
        /\ results[j].is_relevant}

\* C13: for a batch of N items, each relevant result with index i in 0..N-1 is
\* attached to the i-th item of the batch, and a result whose index is missing,
\* negative or >= N is dropped: no error is raised for it and no item is put up
\* for notification because of it.  (Results whose index is not a number are left
\* aside.)
ClaimC13_IndexMapping ==
    (response # NoResponse
        /\ \A j \in 1..Len(ResultsAtHand) : ResultsAtHand[j].kind # "strindex") =>
        /\ pc # "aborted"
        /\ pc = "notify" =>
              LET at == AttachableAt(ResultsAtHand, Len(batch_items))
                  attached == [j \in at |-> batch_items[ResultsAtHand[j].index + 1]]
              IN /\ Len(relevant_in_batch) = Cardinality(at)
                 /\ ListsInOrder(relevant_in_batch, attached, at, 0)

\* C14: analyze_batch retries a throttled LLM call once and then gives up: it makes
\* at most two LLM calls.
ClaimC14_AtMostTwoCalls == llm_calls <= 2

\* neither json.loads of parse_batch_response yields a list
NoParsableArray(resp) ==
    resp # NoResponse /\ resp.whole # "list" /\ resp.bracketed # "list"

\* C15: when the LLM response holds no parsable JSON array, analyze_batch returns
\* an empty list: the run does not crash, no item of the batch is notified and the
\* batch adds nothing to the relevant items.
ClaimC15_ParseFailureIsEmpty ==
    /\ [](NoParsableArray(response) =>
            /\ pc = "notify"
            /\ analysis = "parse_fail"
            /\ relevant_in_batch = <<>>)
    /\ [][(NoParsableArray(response) /\ pc = "notify") =>
            /\ pc' = "checkpoint"
            /\ deliveries' = <<>>
            /\ total_relevant' = total_relevant
            /\ total_sent' = total_sent
            /\ relevant_stats' = relevant_stats]_vars

\* a response that spells out a relevant result for item 0 inside brackets that
\* json.loads rejects was taken as a parse failure
WitnessC15 ==
    /\ pc = "notify"
    /\ analysis = "parse_fail"
    /\ response.whole = "invalid"
    /\ response.bracketed = "invalid"
    /\ \E j \in 1..Len(response.array) :
          /\ response.array[j].kind = "dict"
          /\ response.array[j].index = 0
          /\ response.array[j].is_relevant

\* C16: if fetch returns no items, or every item mentions an exclusion keyword,
\* main goes directly to DONE: no LLM call, no notification, no summary, no batch
\* checkpoint.
ClaimC16_NothingToDoExits ==
    [][(pc = "fetch_returned"
          /\ (new_items = <<>> \/ NotExcludedAt(new_items) = {})) =>
            /\ pc' \in {"done", "killed"}
            /\ UNCHANGED <<ledgerFile, llm_calls, response, deliveries,
                           total_relevant, total_sent, stoppedAt>>]_vars

\* the run ended although fetch had returned items: all of them were excluded
WitnessC16 ==
    /\ pc = "done"
    /\ new_items # <<>>
    /\ NotExcludedAt(new_items) = {}
    /\ filtered_items = <<>>

\* C17: after the last batch, a run that found a relevant item delivers its
\* summary (or reports the failed delivery as a value) and goes on to its end: the
\* summary call does not abort the run.
ClaimC17_SummaryDoesNotAbort == ~(pc = "aborted" /\ stoppedAt = "summary")

\* C18: if GEMINI_API_KEY or FEISHU_WEBHOOK_URL is absent, main exits with status 1
\* before any feed fetch, LLM call, webhook call or ledger write.
ClaimC18_ExitBeforeAnyWork ==
    (~env.GEMINI_API_KEY \/ ~env.FEISHU_WEBHOOK_URL) =>
        /\ pc \in {"start", "exit1"}
        /\ ledgerFile = startFile
        /\ fileBeforeSave = MissingFile
        /\ processed_ids = {}
        /\ all_new_items = <<>>
        /\ new_items = <<>>
        /\ llm_calls = 0
        /\ deliveries = <<>>

WitnessC18 ==
    /\ pc = "exit1"
    /\ env.GEMINI_API_KEY
    /\ ~env.FEISHU_WEBHOOK_URL

OkCount(outcomes) == Cardinality({i \in 1..Len(outcomes) : outcomes[i] = "ok"})

\* C19: a failed delivery stops neither the deliveries of the remaining relevant
\* items of the batch, nor the checkpoint of the batch, nor the next batch:
\* send_batch_to_feishu tries every item and returns the number of successes, and
\* the loop goes on to the checkpoint and from there to the next batch.
ClaimC19_DeliveryFailureIsLocal ==
    [][/\ pc = "notify" =>
            /\ pc' = "checkpoint"
            /\ Len(deliveries') = Len(relevant_in_batch)
            /\ total_sent' = total_sent + OkCount(deliveries')
       /\ pc = "checkpoint" =>
            /\ pc' = "save_open"
            /\ BatchIds(batch_items) \subseteq processed_ids'
       /\ (pc = "batch_end" /\ batch_num < total_batches) =>
            /\ pc' = "classify"
            /\ batch_idx' = batch_idx + 1]_vars

\* the first delivery of the batch failed, a later one went through
WitnessC19 ==
    /\ pc = "checkpoint"
    /\ Len(deliveries) >= 2
    /\ deliveries[1] # "ok"
    /\ \E i \in 2..Len(deliveries) : deliveries[i] = "ok"
    /\ total_sent = OkCount(deliveries)

\* C20: with the credentials present, no outcome of a collaborator (feeds, LLM,
\* webhook, ledger file) aborts the run: main never dies of an exception.
ClaimC20_NeverAborts == env = AllSet => pc # "aborted"

\* concatenation of the chunks in order
RECURSIVE Flatten(_)
Flatten(ss) == IF ss = <<>> THEN <<>> ELSE Head(ss) \o Flatten(Tail(ss))

\* C24: chunk_list splits its input into contiguous batches of 1 to chunk_size
\* items whose concatenation in order is the input; every batch but the last has
\* chunk_size items, so every item lies in exactly one batch.
ClaimC24_ChunksPartition ==
    pc = "chunked" =>
        /\ Flatten(chunks) = filtered_items
        /\ \A k \in 1..Len(chunks) : Len(chunks[k]) \in 1..chunk_arg
        /\ \A k \in 1..(Len(chunks) - 1) : Len(chunks[k]) = chunk_arg

\* several batches, the last one short
WitnessC24 ==
    /\ pc = "chunked"
    /\ Len(chunks) >= 2
    /\ Len(chunks[Len(chunks)]) < chunk_arg

\* C25: the list fetch_all_new_posts builds and returns never holds two items
\* with the same id, whatever the feeds deliver.
ClaimC25_ReturnedIdsDistinct ==
    \A l \in {all_new_items, new_items, firstResult} :
        \A i, j \in 1..Len(l) : l[i].id = l[j].id => i = j

\* an entry the post feed delivered twice and the search feed again was returned
WitnessC25 ==
    /\ pc = "fetch_returned"
    /\ callNo = 1
    /\ \E e \in Entries :
          /\ Cardinality({i \in 1..Len(feeds["post"]) : feeds["post"][i] = e}) >= 2
          /\ \E i \in 1..Len(feeds["search"]) : feeds["search"][i] = e
          /\ e.id \in ItemIds(new_items)

\* C23: parse_feed_with_retry makes at most max_retries parse attempts, returns
\* the feed of the first well-formed attempt, waits after a failed attempt only
\* when another attempt follows, returns None after max_retries failed attempts,
\* and always returns.
ClaimC23_BoundedRetry ==
    LET parses == {i \in 1..Len(retry_log) : retry_log[i].call = "parse"}
        sleeps == {i \in 1..Len(retry_log) : retry_log[i].call = "sleep"}
        good == {i \in parses : retry_log[i].outcome = "well_formed"}
    IN
    /\ [](/\ Cardinality(parses) <= max_retries
          /\ \A i \in sleeps :
                /\ i - 1 \in parses \ good
                /\ i = Len(retry_log) =>
                      pc = "retry_loop" /\ Cardinality(parses) < max_retries
                /\ i < Len(retry_log) => i + 1 \in parses
          /\ \A i \in parses : i > 1 => i - 1 \in sleeps
          /\ pc = "retry_returned" =>
                \/ /\ feed.kind = "feed"
                   /\ good = {Len(retry_log)}
                   /\ retry_log[Len(retry_log)].attempt = feed.of
                   /\ Cardinality(parses) = feed.of + 1
                \/ /\ feed.kind = "None"
                   /\ good = {}
                   /\ Cardinality(parses) = max_retries)
    /\ <>(pc = "retry_returned")

\* with the default of three attempts: the third one was well-formed, after two
\* waits
WitnessC23 ==
    /\ pc = "retry_returned"
    /\ max_retries = 3
    /\ feed = [kind |-> "feed", of |-> 2]
    /\ Len(retry_log) = 5

\* C21: a source whose fetch failed contributes no item and does not end the
\* fetch stage: the step that fetches it leaves the item list as it was and goes
\* on to the next source, and once the three loops are over every configured
\* source has been fetched exactly once.
ClaimC21_SourceFailureIsLocal ==
    /\ [](pc \in {"save_open", "save_write", "fetch_return", "fetch_returned"} =>
            /\ Len(source_log) = 2 * Len(SUBREDDITS) + Len(SEARCH_KEYWORDS)
            /\ \A t \in {"post", "comment"} : \A n \in 1..Len(SUBREDDITS) :
                  Cardinality({i \in 1..Len(source_log) :
                      source_log[i].type = t
                          /\ source_log[i].source = SUBREDDITS[n]}) = 1
            /\ \A n \in 1..Len(SEARCH_KEYWORDS) :
                  Cardinality({i \in 1..Len(source_log) :
                      source_log[i].type = "search"
                          /\ source_log[i].source = SEARCH_KEYWORDS[n]}) = 1)
    /\ [][(source_log' # source_log /\ source_log'[Len(source_log')].failed) =>
            /\ all_new_items' = all_new_items
            /\ processed_ids' = processed_ids
            /\ pc' \in {"fetch_posts", "fetch_comments", "fetch_search", "save_open"}]_vars

\* the first subreddit's posts could not be fetched, and a later source delivered
\* an item that the call returned
WitnessC21 ==
    /\ pc = "fetch_returned"
    /\ source_log[1].failed
    /\ \E j \in 2..Len(source_log) : source_log[j].kept > 0
    /\ new_items # <<>>

\* C22: an iteration of the batch loop classifies, then notifies (if and only if
\* the batch has relevant items), then records the batch's ids and checkpoints the
\* ledger, once; it is preceded by a sleep exactly when it is not the first
\* iteration, and a sleep is taken only when another batch remains, so never after
\* the last one.
ClaimC22_IterationOrder ==
    /\ [](LET number_of_batches == (Len(filtered_items) + BATCH_SIZE - 1) \div BATCH_SIZE
              done_so_far == IF batch_events # <<>> /\ Head(batch_events) = "sleep"
                             THEN Tail(batch_events) ELSE batch_events
              checkpoints == Cardinality({i \in 1..Len(batch_events) :
                                              batch_events[i] = "checkpoint"})
          IN
          /\ \E full \in {<<"classify", "notify", "checkpoint">>,
                           <<"classify", "checkpoint">>} :
                /\ Len(done_so_far) <= Len(full)
                /\ done_so_far = SubSeq(full, 1, Len(done_so_far))
          /\ pc \in {"classify", "notify", "checkpoint", "save_open", "save_write",
                     "batch_end", "done"} =>
                /\ (batch_events # <<>> /\ Head(batch_events) = "sleep") <=> batch_idx > 0
                /\ batch_idx < number_of_batches
          /\ pc \in {"batch_end", "done"} => checkpoints = 1
          /\ pc \in {"classify", "notify", "checkpoint"} => checkpoints = 0
          /\ pc = "done" => batch_idx + 1 = number_of_batches)
    /\ [][/\ (pc = "notify" /\ pc' = "checkpoint") =>
                /\ batch_events' = Append(batch_events, "notify")
                       <=> relevant_in_batch # <<>>
                /\ batch_events' = batch_events <=> relevant_in_batch = <<>>
                /\ deliveries' # <<>> <=> relevant_in_batch # <<>>
          /\ (batch_idx' # batch_idx /\ pc' = "classify") =>
                /\ batch_events' = <<"sleep">>
                /\ batch_idx' = batch_idx + 1
                /\ batch_idx' < (Len(filtered_items) + BATCH_SIZE - 1) \div BATCH_SIZE
                /\ batch_events[Len(batch_events)] = "checkpoint"]_vars

\* the second iteration, after a sleep, has classified, notified and checkpointed
WitnessC22 ==
    /\ pc = "batch_end"
    /\ batch_idx = 1
    /\ batch_events = <<"sleep", "classify", "notify", "checkpoint">>

\* C26: within one run each item is the subject of at most one delivery attempt,
\* whatever the LLM answered: among the deliveries a batch's notification made, no
\* two are for the same item (the batches of a run share no item).
ClaimC26_OneDeliveryPerItem ==
    pc = "checkpoint" =>
        \A item \in Range(filtered_items) :
            Cardinality({i \in 1..Len(deliveries) :
                            relevant_in_batch[i].id = item.id}) <= 1

\* C27: between the iterations of the batch loop and at the end of the run,
\* total_sent <= total_relevant <= number of pre-filtered items <= number of
\* fetched items, and total_relevant is the sum of the per-type relevant counts.
ClaimC27_CountersOrdered ==
    pc \in {"checkpoint", "save_open", "save_write", "batch_end", "done"} =>
        /\ total_sent <= total_relevant
        /\ total_relevant <= Len(filtered_items)
        /\ Len(filtered_items) <= Len(new_items)
        /\ total_relevant = relevant_stats["post"] + relevant_stats["comment"]
                                + relevant_stats["search"]
====
